---- MODULE Spec2Model ----
(***************************************************************************)
(* Model of the BFCL session runner (packages/eval/data/bfcl_eval/runner.py)*)
(* and of the backend registry (constants/executable_backend_config.py).    *)
(*                                                                          *)
(* Strings that take part in key/prefix arithmetic are sequences of tokens; *)
(* the token alphabet is a prefix code ("_" is a token of its own), so that *)
(* str.startswith on the characters and on the tokens agree.                *)
(* A JSON object is a function whose DOMAIN is the set of keys present.     *)
(***************************************************************************)
EXTENDS Integers, Sequences, FiniteSets, TLC

VARIABLES
    registry,   \* the values of the backend registry module
    globals,    \* the process-wide bindings: name -> object
    payload,    \* main's local variable `payload`
    line,       \* the line main read last
    response,   \* the response main wrote last
    out,        \* the output stream: for each response, the line it answers
    nread,      \* number of non-blank lines read
    nlines,     \* number of lines read
    status,     \* "running" | "crashed" | "eof"
    left,       \* history: (model, test entry, class) -> the state in which
                \* the session's last execute left the instance, since the
                \* last reset of that session
    hist        \* history: shape of the requests read so far

vars == <<registry, globals, payload, line, response, out, nread, nlines,
          status, left, hist>>

\* ------------------------------------------------------------------ bounds
MaxLines == 3

\* ----------------------------------------------------------------- strings
None == "None"
EmptyDict == [k \in {} |-> None]

U == <<"_">>

startswith(k, p) == Len(k) >= Len(p) /\ SubSeq(k, 1, Len(p)) = p

\* ---------------------------------------------------------------- registry
BACKEND_PATH_PREFIX == "bfcl_eval.eval_checker.multi_turn_eval.func_source_code"

MULTI_TURN_FUNC_DOC_FILE_MAPPING ==
    [GorillaFileSystem |-> "gorilla_file_system.json",
     MathAPI           |-> "math_api.json",
     MessageAPI        |-> "message_api.json",
     TwitterAPI        |-> "posting_api.json",
     TicketAPI         |-> "ticket_api.json",
     TradingBot        |-> "trading_bot.json",
     TravelAPI         |-> "travel_booking.json",
     VehicleControlAPI |-> "vehicle_control.json"]

\* the module-path mapping with one API name spelt differently
CLASS_FILE_PATH_MAPPING_misspelt ==
    [GorillaFileSystem |-> <<BACKEND_PATH_PREFIX, "gorilla_file_system">>,
     MathApi           |-> <<BACKEND_PATH_PREFIX, "math_api">>,
     MessageAPI        |-> <<BACKEND_PATH_PREFIX, "message_api">>,
     TwitterAPI        |-> <<BACKEND_PATH_PREFIX, "posting_api">>,
     TicketAPI         |-> <<BACKEND_PATH_PREFIX, "ticket_api">>,
     TradingBot        |-> <<BACKEND_PATH_PREFIX, "trading_bot">>,
     TravelAPI         |-> <<BACKEND_PATH_PREFIX, "travel_booking">>,
     VehicleControlAPI |-> <<BACKEND_PATH_PREFIX, "vehicle_control">>]

CLASS_FILE_PATH_MAPPING ==
    [GorillaFileSystem |-> <<BACKEND_PATH_PREFIX, "gorilla_file_system">>,
     MathAPI           |-> <<BACKEND_PATH_PREFIX, "math_api">>,
     MessageAPI        |-> <<BACKEND_PATH_PREFIX, "message_api">>,
     TwitterAPI        |-> <<BACKEND_PATH_PREFIX, "posting_api">>,
     TicketAPI         |-> <<BACKEND_PATH_PREFIX, "ticket_api">>,
     TradingBot        |-> <<BACKEND_PATH_PREFIX, "trading_bot">>,
     TravelAPI         |-> <<BACKEND_PATH_PREFIX, "travel_booking">>,
     VehicleControlAPI |-> <<BACKEND_PATH_PREFIX, "vehicle_control">>]

STATELESS_CLASSES == <<"MathAPI">>

OMIT_STATE_INFO_CLASSES == <<>>

Range(s) == {s[i] : i \in DOMAIN s}

\* the registry module once it has been imported
LoadedRegistry ==
    [docs      |-> MULTI_TURN_FUNC_DOC_FILE_MAPPING,
     prefix    |-> BACKEND_PATH_PREFIX,
     paths     |-> CLASS_FILE_PATH_MAPPING,
     stateless |-> STATELESS_CLASSES,
     omit      |-> OMIT_STATE_INFO_CLASSES]

\* ------------------------------------------------- the runner's own bindings
EngineName  == <<"execute", "_", "multi", "_", "turn", "_", "func", "_", "call">>
CheckerName == <<"multi", "_", "turn", "_", "check", "er">>

ModuleBindings ==
    [n \in {<<"json">>, <<"os">>, <<"sys">>, <<"PACKAGE", "_", "ROOT">>,
            EngineName, CheckerName,
            <<"_", "handle", "_", "execute">>,
            <<"_", "handle", "_", "check">>,
            <<"_", "handle", "_", "reset">>,
            <<"HANDLERS">>, <<"main">>}
        |-> [class |-> "binding", state |-> 0]]

\* ------------------------------------------------------------------ inputs
X       == <<"x">>
Y       == <<"y">>
Z       == <<"z">>
X_Y     == <<"x", "_", "y">>
Y_Z     == <<"y", "_", "z">>
EXECUTE == <<"execute">>
MULTI   == <<"multi">>
TURN    == <<"turn">>

\* the (model_name, test_entry_id) pairs the requests are drawn from
Sessions == {<<X, Y>>, <<X, Y_Z>>, <<X_Y, Z>>, <<EXECUTE, MULTI>>}

\* reset requests may also name a pair no execute request uses
ResetSessions == Sessions \cup {<<MULTI, TURN>>}

SessionDict(s) == ("model_name" :> s[1]) @@ ("test_entry_id" :> s[2])

\* both fields present, both absent, one absent, one empty
SessionDicts ==
    {SessionDict(s) : s \in ResetSessions}
        \cup {EmptyDict, "model_name" :> X, "test_entry_id" :> Y,
              SessionDict(<<X, <<>>>>)}

\* execute requests name a session, omit both fields or omit one
ExecuteSessionDicts ==
    {SessionDict(s) : s \in Sessions} \cup {EmptyDict, "model_name" :> X}

Ids == {"1", "2"}
IdDicts == {EmptyDict} \cup {"id" :> i : i \in Ids}

ConfigDicts == {EmptyDict, "initial_config" :> ("GorillaFileSystem" :> 1)}

CallsDicts ==
    {"func_call_list" :> c :
        c \in {<<"GorillaFileSystem">>,
               <<"MathAPI", "GorillaFileSystem", "GorillaFileSystem">>}}

\* the fields of an execute request other than id and session: registered
\* classes with every configuration and call list, and one request naming a
\* class the registry does not have
ExecuteBodies ==
    {c @@ ("involved_classes" :> <<"GorillaFileSystem", "MathAPI">>) @@ f :
        c \in ConfigDicts, f \in CallsDicts}
    \cup {("involved_classes" :> <<"GorillaFileSystem", "NoSuchAPI">>)
            @@ ("func_call_list" :> <<"GorillaFileSystem">>)}

\* every session with every body, and one request with each id
ExecuteRequests ==
    {("action" :> "execute") @@ s @@ b :
        s \in ExecuteSessionDicts, b \in ExecuteBodies}
    \cup {("action" :> "execute") @@ ("id" :> i) @@ SessionDict(<<X, Y>>)
             @@ ("involved_classes" :> <<"GorillaFileSystem", "MathAPI">>)
             @@ ("func_call_list" :> <<"GorillaFileSystem">>) : i \in Ids}

CheckRequests ==
    {("action" :> "check") @@ m @@ ("ground_truth" :> "r1") :
        m \in {EmptyDict, "model_results" :> "r1", "model_results" :> "r2"}}
    \cup {("action" :> "check") @@ ("id" :> i) @@ ("model_results" :> "r1")
             @@ ("ground_truth" :> "r1") : i \in Ids}

ResetRequests ==
    {("action" :> "reset") @@ s : s \in SessionDicts}
    \cup {("action" :> "reset") @@ ("id" :> i) @@ s :
             i \in Ids, s \in {EmptyDict, SessionDict(<<X, Y>>)}}

\* JSON values that cannot be dictionary keys (a list as the action)
UnhashableActions == {"['execute']"}

OtherRequests ==
    {a @@ i : a \in {EmptyDict, "action" :> "bogus", "action" :> "['execute']"},
              i \in IdDicts}

\* a line of input: its text is abstracted to what strip() and json.loads
\* make of it
BlankLines     == {[text |-> t, type |-> "blank", dict |-> EmptyDict] :
                      t \in {"", "  "}}
MalformedLines == {[text |-> "{not json", type |-> "malformed", dict |-> EmptyDict]}
NonObjectLines == {[text |-> t[1], type |-> t[2], dict |-> EmptyDict] :
                      t \in {<<"[1]", "list">>, <<"5", "int">>,
                             <<"\"x\"", "str">>, <<"null", "NoneType">>}}
ObjectLines(D) == {[text |-> "{...}", type |-> "dict", dict |-> d] : d \in D}
OtherLines   == ObjectLines(OtherRequests)
ExecuteLines == ObjectLines(ExecuteRequests)
CheckLines   == ObjectLines(CheckRequests)
ResetLines   == ObjectLines(ResetRequests)

NoLine     == [text |-> "", type |-> "none", dict |-> EmptyDict]
Unbound    == [type |-> "unbound", dict |-> EmptyDict]
NoResponse == EmptyDict

\* ---------------------------------------------------------------- dict.get
Get(d, key, default) == IF key \in DOMAIN d THEN d[key] ELSE default

\* the result of a call: either a value or a raised exception; `globals` is
\* the namespace the call leaves behind
Return(v, g) == [raised |-> FALSE, error |-> <<>>, value |-> v, globals |-> g]
Raise(e, g)  == [raised |-> TRUE, error |-> e, value |-> EmptyDict, globals |-> g]

\* ------------------------------------------------------ execution engine
\* The engine and the checker are imported by runner.py (lines 10-11) from
\* modules the repository's source tree here does not hold.  They are modelled
\* from the specification: instances live among the process-wide bindings
\* under the session prefix that _handle_reset scans for (line 43) followed by
\* the class name, are created lazily and seeded from initial_config on first
\* creation; stateless classes are never cached; a class name outside the
\* registry fails the request before anything is created.  A backend object
\* is abstracted to a counter of the calls made on it.
\* the name under which the instance of class c of session (m, t) is bound
InstanceKey(m, t, c) == m \o U \o t \o U \o <<c>>

\* lazy creation that caches an instance of every involved class, the
\* stateless ones too
RECURSIVE CreateInstances_cache_all(_, _, _, _, _, _)
CreateInstances_cache_all(g, classes, i, config, m, t) ==
    IF i > Len(classes) THEN g
    ELSE LET c == classes[i]
             k == InstanceKey(m, t, c)
             g1 == IF k \in DOMAIN g
                   THEN g
                   ELSE (k :> [class |-> c, state |-> Get(config, c, 0)]) @@ g
         IN  CreateInstances_cache_all(g1, classes, i + 1, config, m, t)

RECURSIVE CreateInstances(_, _, _, _, _, _)
CreateInstances(g, classes, i, config, m, t) ==
    IF i > Len(classes) THEN g
    ELSE LET c == classes[i]
             k == InstanceKey(m, t, c)
             g1 == IF c \in Range(STATELESS_CLASSES) \/ k \in DOMAIN g
                   THEN g
                   ELSE (k :> [class |-> c, state |-> Get(config, c, 0)]) @@ g
         IN  CreateInstances(g1, classes, i + 1, config, m, t)

\* one call on a backend object: a stateful object counts the calls made on
\* it and answers the count, a stateless one answers a constant, a call on a
\* class that is not involved answers an error string
RECURSIVE ApplyCalls(_, _, _, _, _, _, _)
ApplyCalls(g, calls, i, classes, m, t, results) ==
    IF i > Len(calls) THEN [results |-> results, globals |-> g]
    ELSE LET c == calls[i]
             k == InstanceKey(m, t, c)
         IN  IF c \notin Range(classes)
             THEN ApplyCalls(g, calls, i + 1, classes, m, t,
                             Append(results, "Error during execution"))
             ELSE IF c \in Range(STATELESS_CLASSES)
             THEN ApplyCalls(g, calls, i + 1, classes, m, t,
                             Append(results, "stateless"))
             ELSE LET n == g[k].state + 1
                  IN  ApplyCalls([g EXCEPT ![k].state = n], calls, i + 1,
                                 classes, m, t, Append(results, ToString(n)))

\* the engine creating the instances of the classes that come before the
\* unresolved one, and only then failing
execute_multi_turn_func_call_partial(g, func_call_list, initial_config, involved_classes, model_name, test_entry_id) ==
    IF \E i \in DOMAIN involved_classes :
           involved_classes[i] \notin DOMAIN CLASS_FILE_PATH_MAPPING
    THEN LET i == CHOOSE j \in DOMAIN involved_classes :
                    /\ involved_classes[j] \notin DOMAIN CLASS_FILE_PATH_MAPPING
                    /\ \A h \in 1..(j - 1) :
                          involved_classes[h] \in DOMAIN CLASS_FILE_PATH_MAPPING
         IN  Raise(<<"KeyError", involved_classes[i]>>,
                   CreateInstances(g, SubSeq(involved_classes, 1, i - 1), 1,
                                   initial_config, model_name, test_entry_id))
    ELSE LET g1 == CreateInstances(g, involved_classes, 1, initial_config,
                                   model_name, test_entry_id)
             r  == ApplyCalls(g1, func_call_list, 1, involved_classes,
                              model_name, test_entry_id, <<>>)
         IN  Return(r.results, r.globals)

execute_multi_turn_func_call(g, func_call_list, initial_config, involved_classes, model_name, test_entry_id) ==
    IF \E i \in DOMAIN involved_classes :
           involved_classes[i] \notin DOMAIN CLASS_FILE_PATH_MAPPING
    THEN LET i == CHOOSE j \in DOMAIN involved_classes :
                    /\ involved_classes[j] \notin DOMAIN CLASS_FILE_PATH_MAPPING
                    /\ \A h \in 1..(j - 1) :
                          involved_classes[h] \in DOMAIN CLASS_FILE_PATH_MAPPING
         IN  Raise(<<"KeyError", involved_classes[i]>>, g)
    ELSE LET g1 == CreateInstances(g, involved_classes, 1, initial_config,
                                   model_name, test_entry_id)
             r  == ApplyCalls(g1, func_call_list, 1, involved_classes,
                              model_name, test_entry_id, <<>>)
         IN  Return(r.results, r.globals)

\* --------------------------------------------------------------- checker
multi_turn_checker(model_results, ground_truth, raises) ==
    IF raises THEN [raised |-> TRUE, verdict |-> EmptyDict]
    ELSE [raised |-> FALSE,
          verdict |-> [valid |-> model_results = ground_truth]]

\* -------------------------------------------------------------- handlers
\* _handle_execute with a failure of the engine turned into empty results
_handle_execute_swallow(g, p) ==
    IF EngineName \notin DOMAIN g
    THEN Return("results" :> <<>>, g)
    ELSE LET r == execute_multi_turn_func_call(g,
                      Get(p, "func_call_list", <<>>),
                      Get(p, "initial_config", EmptyDict),
                      Get(p, "involved_classes", <<>>),
                      Get(p, "model_name", <<"model">>),
                      Get(p, "test_entry_id", <<>>))
         IN  IF r.raised THEN Return("results" :> <<>>, g)
             ELSE Return("results" :> r.value, r.globals)

\* _handle_execute requiring the two session fields
_handle_execute_reject(g, p) ==
    IF EngineName \notin DOMAIN g
    THEN Raise(<<"NameError", "execute_multi_turn_func_call">>, g)
    ELSE IF "model_name" \notin DOMAIN p
    THEN Raise(<<"KeyError", "model_name">>, g)
    ELSE IF "test_entry_id" \notin DOMAIN p
    THEN Raise(<<"KeyError", "test_entry_id">>, g)
    ELSE LET r == execute_multi_turn_func_call(g,
                      Get(p, "func_call_list", <<>>),
                      Get(p, "initial_config", EmptyDict),
                      Get(p, "involved_classes", <<>>),
                      p["model_name"],
                      p["test_entry_id"])
         IN  IF r.raised THEN r
             ELSE Return("results" :> r.value, r.globals)

_handle_execute(g, p) ==
    IF EngineName \notin DOMAIN g
    THEN Raise(<<"NameError", "execute_multi_turn_func_call">>, g)
    ELSE LET r == execute_multi_turn_func_call(g,
                      Get(p, "func_call_list", <<>>),
                      Get(p, "initial_config", EmptyDict),
                      Get(p, "involved_classes", <<>>),
                      Get(p, "model_name", <<"model">>),
                      Get(p, "test_entry_id", <<>>))
         IN  IF r.raised THEN r
             ELSE Return("results" :> r.value, r.globals)

\* _handle_check reading the model's results under a misspelt key
_handle_check_typo(g, p, raises) ==
    IF CheckerName \notin DOMAIN g
    THEN Raise(<<"NameError", "multi_turn_checker">>, g)
    ELSE LET r == multi_turn_checker(Get(p, "model_result", "[]"),
                                     Get(p, "ground_truth", "[]"), raises)
         IN  IF r.raised THEN Raise(<<"Exception", "checker">>, g)
             ELSE Return("result" :> r.verdict, g)

_handle_check(g, p, raises) ==
    IF CheckerName \notin DOMAIN g
    THEN Raise(<<"NameError", "multi_turn_checker">>, g)
    ELSE LET r == multi_turn_checker(Get(p, "model_results", "[]"),
                                     Get(p, "ground_truth", "[]"), raises)
         IN  IF r.raised THEN Raise(<<"Exception", "checker">>, g)
             ELSE Return("result" :> r.verdict, g)

\* `if model_name and test_entry_id`: both present and non-empty
Truthy(p, key) == key \in DOMAIN p /\ p[key] # <<>>

\* _handle_reset clearing every cached instance when no session is named
_handle_reset_clear_all(g, p) ==
    IF Truthy(p, "model_name") /\ Truthy(p, "test_entry_id")
    THEN LET prefix == p["model_name"] \o U \o p["test_entry_id"] \o U
             to_delete == {k \in DOMAIN g : startswith(k, prefix)}
         IN  Return("reset" :> TRUE,
                    [k \in (DOMAIN g) \ to_delete |-> g[k]])
    ELSE Return("reset" :> TRUE,
                [k \in {n \in DOMAIN g : g[n].class = "binding"} |-> g[k]])

\* _handle_reset failing when the session has nothing cached
_handle_reset_strict(g, p) ==
    IF Truthy(p, "model_name") /\ Truthy(p, "test_entry_id")
    THEN LET prefix == p["model_name"] \o U \o p["test_entry_id"] \o U
             to_delete == {k \in DOMAIN g : startswith(k, prefix)}
         IN  IF to_delete = {}
             THEN Raise(<<"KeyError", "no cached instance">>, g)
             ELSE Return("reset" :> TRUE,
                         [k \in (DOMAIN g) \ to_delete |-> g[k]])
    ELSE Return("reset" :> TRUE, g)

_handle_reset(g, p) ==
    IF Truthy(p, "model_name") /\ Truthy(p, "test_entry_id")
    THEN LET prefix == p["model_name"] \o U \o p["test_entry_id"] \o U
             to_delete == {k \in DOMAIN g : startswith(k, prefix)}
         IN  Return("reset" :> TRUE,
                    [k \in (DOMAIN g) \ to_delete |-> g[k]])
    ELSE Return("reset" :> TRUE, g)

HANDLERS == [execute |-> "_handle_execute",
             check   |-> "_handle_check",
             reset   |-> "_handle_reset"]

CallHandler(handler, g, p, raises) ==
    CASE handler = "_handle_execute" -> _handle_execute(g, p)
      [] handler = "_handle_check"   -> _handle_check(g, p, raises)
      [] handler = "_handle_reset"   -> _handle_reset(g, p)

\* ------------------------------------------------------------------ main
\* the line taken as it is, its surrounding whitespace kept
strip_nothing(ln) == ln.text

\* line.strip() of a line of the input
strip(ln) == IF ln.type = "blank" THEN "" ELSE ln.text

\* json.loads: the parsed value, or a JSONDecodeError
json_loads(ln) ==
    IF ln.type \in {"malformed", "blank"}
    THEN [raised |-> TRUE, value |-> Unbound]
    ELSE [raised |-> FALSE, value |-> [type |-> ln.type, dict |-> ln.dict]]

\* the try block of main (lines 67-75): `pl` is the value of the local
\* `payload` when the block ends, `r` what the block produced
main_try(g, pl, ln, raises) ==
    LET j == json_loads(ln)
    IN  IF j.raised
        THEN [payload |-> pl, r |-> Raise(<<"JSONDecodeError">>, g)]
        ELSE LET p == j.value
             IN  IF p.type # "dict"
                 THEN [payload |-> p,
                       r |-> Raise(<<"AttributeError", p.type>>, g)]
                 ELSE LET action == Get(p.dict, "action", None)
                      IN  IF action \in UnhashableActions
                          THEN [payload |-> p,
                                r |-> Raise(<<"TypeError", "unhashable type">>, g)]
                          ELSE IF action \notin DOMAIN HANDLERS
                          THEN [payload |-> p,
                                r |-> Return("error" :> <<"unknown action: ", action>>, g)]
                          ELSE [payload |-> p,
                                r |-> CallHandler(HANDLERS[action], g, p.dict, raises)]

\* the except clause reporting no id at all
main_except_null_id(pl, e) ==
    IF pl.type \in {"unbound", "dict"}
    THEN [raised |-> FALSE, response |-> ("id" :> None) @@ ("error" :> e)]
    ELSE [raised |-> TRUE, response |-> NoResponse]

\* the except clause of main (lines 76-77): the id it reports, or a second
\* exception raised by payload.get inside the clause
main_except(pl, e) ==
    IF pl.type = "unbound"
    THEN [raised |-> FALSE, response |-> ("id" :> None) @@ ("error" :> e)]
    ELSE IF pl.type = "dict"
    THEN [raised |-> FALSE,
          response |-> ("id" :> Get(pl.dict, "id", None)) @@ ("error" :> e)]
    ELSE [raised |-> TRUE, response |-> NoResponse]

\* one iteration of the loop of main on a non-blank line
main_body(g, pl, ln, raises) ==
    LET t == main_try(g, pl, ln, raises)
    IN  IF ~t.r.raised
        THEN [payload |-> t.payload, globals |-> t.r.globals, crashed |-> FALSE,
              response |-> ("id" :> Get(t.payload.dict, "id", None)) @@ t.r.value]
        ELSE LET x == main_except(t.payload, t.r.error)
             IN  [payload |-> t.payload, globals |-> t.r.globals,
                  crashed |-> x.raised, response |-> x.response]

\* ---------------------------------------------------------------- history
\* the session an execute request runs under (lines 19-20)
ExecuteSession(p) ==
    <<Get(p, "model_name", <<"model">>), Get(p, "test_entry_id", <<>>)>>

IsAction(ln, a) == ln.type = "dict" /\ Get(ln.dict, "action", None) = a

IsSessionReset(ln) ==
    /\ IsAction(ln, "reset")
    /\ Truthy(ln.dict, "model_name")
    /\ Truthy(ln.dict, "test_entry_id")

ResetSession(p) == <<p["model_name"], p["test_entry_id"]>>

Stateful(classes) ==
    {c \in Range(classes) : c \notin Range(STATELESS_CLASSES)}

\* what the session's instances are after an answered request
LeftNext(l, ln, resp, g) ==
    IF IsAction(ln, "execute") /\ "results" \in DOMAIN resp
    THEN LET K == ExecuteSession(ln.dict)
             new == {<<K[1], K[2], c>> :
                        c \in {d \in Stateful(Get(ln.dict, "involved_classes", <<>>)) :
                                  InstanceKey(K[1], K[2], d) \in DOMAIN g}}
         IN  [e \in (DOMAIN l) \cup new |->
                 IF e \in new THEN g[InstanceKey(e[1], e[2], e[3])].state
                 ELSE l[e]]
    ELSE IF IsSessionReset(ln)
    THEN LET K == ResetSession(ln.dict)
         IN  [e \in {d \in DOMAIN l : <<d[1], d[2]>> # K} |-> l[e]]
    ELSE l

NoHist    == [st |-> "start", s |-> <<>>]
OtherHist == [st |-> "other", s |-> <<>>]

\* "start": nothing read; "exec": only execute requests of session s read;
\* "reset": such requests and then one reset of s; "other": anything else
HistNext(h, ln) ==
    IF IsAction(ln, "execute")
    THEN IF h.st = "start" \/ (h.st = "exec" /\ h.s = ExecuteSession(ln.dict))
         THEN [st |-> "exec", s |-> ExecuteSession(ln.dict)]
         ELSE OtherHist
    ELSE IF IsSessionReset(ln)
    THEN IF h.st = "start" \/ (h.st = "exec" /\ h.s = ResetSession(ln.dict))
         THEN [st |-> "reset", s |-> ResetSession(ln.dict)]
         ELSE OtherHist
    ELSE OtherHist

main(ln, raises) ==
    /\ status = "running"
    /\ nlines < MaxLines
    /\ nlines' = nlines + 1
    /\ line' = ln
    /\ UNCHANGED registry
    /\ IF strip(ln) = ""
       THEN UNCHANGED <<globals, payload, response, out, nread, status,
                        left, hist>>
       ELSE \E b \in {main_body(globals, payload, ln, raises)} :
                /\ nread' = nread + 1
                /\ payload' = b.payload
                /\ globals' = b.globals
                /\ hist' = HistNext(hist, ln)
                /\ IF b.crashed
                   THEN /\ status' = "crashed"
                        /\ UNCHANGED <<response, out, left>>
                   ELSE /\ status' = "running"
                        /\ response' = b.response
                        /\ out' = Append(out, nread + 1)
                        /\ left' = LeftNext(left, ln, b.response, b.globals)

\* ----------------------------------------------------------------- actions
ReadBlank     == \E ln \in BlankLines : main(ln, FALSE)
ReadMalformed == \E ln \in MalformedLines : main(ln, FALSE)
ReadNonObject == \E ln \in NonObjectLines : main(ln, FALSE)
ReadOther     == \E ln \in OtherLines : main(ln, FALSE)
ReadExecute   == \E ln \in ExecuteLines : main(ln, FALSE)
ReadCheck     == \E ln \in CheckLines, raises \in BOOLEAN :
                     main(ln, raises)
ReadReset     == \E ln \in ResetLines : main(ln, FALSE)

EndOfInput ==
    /\ status = "running"
    /\ status' = "eof"
    /\ UNCHANGED <<registry, globals, payload, line, response, out, nread,
                   nlines, left, hist>>

Init ==
    /\ registry = LoadedRegistry
    /\ globals = ModuleBindings
    /\ payload = Unbound
    /\ line = NoLine
    /\ response = NoResponse
    /\ out = <<>>
    /\ nread = 0
    /\ nlines = 0
    /\ status = "running"
    /\ left = EmptyDict
    /\ hist = NoHist

Next ==
    \/ ReadBlank
    \/ ReadMalformed
    \/ ReadNonObject
    \/ ReadOther
    \/ ReadExecute
    \/ ReadCheck
    \/ ReadReset
    \/ EndOfInput

Spec == Init /\ [][Next]_vars

\* =================================================================== claims
\* a step of main that read a line (EndOfInput reads none)
ReadStep == nlines' = nlines + 1

\* the last line read was a request line and main answered it
Answered == status # "crashed" /\ line.type \notin {"none", "blank"}

\* C1: a line that json.loads rejects is answered with id null and an error
\* string, whatever lines came before it.
C1_MalformedIdNull ==
    (line.type = "malformed" /\ Answered)
        => (response["id"] = None /\ "error" \in DOMAIN response)

\* C2: no line makes the loop end: main is still running (or saw the end of
\* the input) after every line, and every non-blank line read has been
\* answered.
C2_LoopSurvives ==
    /\ status # "crashed"
    /\ Len(out) = nread

\* C3: the responses correspond one-to-one and in order to the non-blank
\* lines: there are as many responses as non-blank lines read, and the n-th
\* response answers the n-th non-blank line.
C3_OneToOneInOrder ==
    /\ Len(out) = nread
    /\ \A n \in DOMAIN out : out[n] = n

\* the instances that belong to session K: those an execute of K left and no
\* reset of K has removed since, by the names under which they are bound
Owned(l, K) ==
    {InstanceKey(e[1], e[2], e[3]) : e \in {d \in DOMAIN l : <<d[1], d[2]>> = K}}

OwnedByOthers(l, K) ==
    {InstanceKey(e[1], e[2], e[3]) : e \in {d \in DOMAIN l : <<d[1], d[2]>> # K}}

\* C4: a reset naming session K (both fields present) removes every cached
\* instance of K and leaves every cached instance of every other session K'
\* in place, unchanged.
C4_ResetRemovesExactlyK ==
    [][(ReadStep /\ IsSessionReset(line') /\ status' = "running") =>
          LET K == ResetSession(line'.dict)
          IN  /\ \A k \in Owned(left, K) : k \notin DOMAIN globals'
              /\ \A k \in OwnedByOthers(left, K) :
                    k \in DOMAIN globals =>
                        (k \in DOMAIN globals' /\ globals'[k] = globals[k])
      ]_vars

\* the namespace without the instances of the sessions other than K
WithoutOthers(g, l, K) ==
    [k \in (DOMAIN g) \ OwnedByOthers(l, K) |-> g[k]]

\* C5: an execute under session K leaves the instances cached under every
\* other session K' as they were, and its response is the one it would give
\* if the instances of the other sessions were not there.
C5_SessionsIsolated ==
    [][(ReadStep /\ IsAction(line', "execute") /\ status' = "running") =>
          LET K == ExecuteSession(line'.dict)
          IN  /\ \A k \in OwnedByOthers(left, K) :
                    k \in DOMAIN globals =>
                        (k \in DOMAIN globals' /\ globals'[k] = globals[k])
              /\ response' =
                    main_body(WithoutOthers(globals, left, K), payload, line',
                              FALSE).response
      ]_vars

\* the response of a process that reads ln as its first line
FirstEver(ln) == main_body(ModuleBindings, Unbound, ln, FALSE).response

\* C6: after execute requests of session K only, a reset of K followed
\* immediately by an execute of K is answered as that execute is answered
\* when it is the first request of a fresh process.
C6_ResetThenExecuteIsFresh ==
    [][(/\ ReadStep
        /\ hist.st = "reset"
        /\ IsAction(line', "execute")
        /\ ExecuteSession(line'.dict) = hist.s
        /\ status' = "running")
          => response' = FirstEver(line')
      ]_vars

\* the namespace of a process that holds, for session K, exactly the
\* instances recorded in l
LeftGlobals(l, K) ==
    LET es == {e \in DOMAIN l : <<e[1], e[2]>> = K}
    IN  [k \in {InstanceKey(e[1], e[2], e[3]) : e \in es} |->
            LET e == CHOOSE d \in es : InstanceKey(d[1], d[2], d[3]) = k
            IN  [class |-> e[3], state |-> l[e]]]
        @@ ModuleBindings

\* C7: an execute of session K that comes after an execute of K, with no
\* reset of K in between, works on the instances the earlier one left: its
\* results are those of its calls applied to these instances, and its
\* initial_config seeds none of them again.
C7_StatePersists ==
    [][(/\ ReadStep
        /\ IsAction(line', "execute")
        /\ \E e \in DOMAIN left :
              /\ <<e[1], e[2]>> = ExecuteSession(line'.dict)
              /\ e[3] \in Range(Get(line'.dict, "involved_classes", <<>>))
        /\ \A c \in Range(Get(line'.dict, "involved_classes", <<>>)) :
              c \in DOMAIN CLASS_FILE_PATH_MAPPING
        /\ status' = "running")
          => response' =
                main_body(LeftGlobals(left, ExecuteSession(line'.dict)),
                          payload, line', FALSE).response
      ]_vars

\* C8: the response to a line that parsed as a JSON object carries the id of
\* that line's request, None when it has none.
C8_IdEchoed ==
    (line.type = "dict" /\ Answered)
        => response["id"] = Get(line.dict, "id", None)

\* a request with an id whose handler raised, read after an earlier request
C8_Witness ==
    /\ Answered
    /\ IsAction(line, "execute")
    /\ "id" \in DOMAIN line.dict
    /\ "error" \in DOMAIN response
    /\ response["id"] = line.dict["id"]
    /\ nread >= 2

\* C9: a request whose action is none of execute, check, reset, or that has
\* no action, is answered with its id and "unknown action: <action>", and
\* the namespace stays as it was.
C9_UnknownAction ==
    [][(/\ ReadStep
        /\ line'.type = "dict"
        /\ Get(line'.dict, "action", None) \notin DOMAIN HANDLERS
        /\ status' = "running")
          => /\ response' =
                   ("id" :> Get(line'.dict, "id", None))
                   @@ ("error" :> <<"unknown action: ",
                                    Get(line'.dict, "action", None)>>)
             /\ globals' = globals
      ]_vars

\* C10: an execute request that names a class the registry does not have is
\* answered with an error and no results.
C10_UnknownClassIsError ==
    (/\ IsAction(line, "execute")
     /\ \E c \in Range(Get(line.dict, "involved_classes", <<>>)) :
           c \notin DOMAIN CLASS_FILE_PATH_MAPPING
     /\ Answered)
        => /\ DOMAIN response = {"id", "error"}
           /\ response["id"] = Get(line.dict, "id", None)

\* an execute naming NoSuchAPI that the engine refused
C10_Witness ==
    /\ Answered
    /\ IsAction(line, "execute")
    /\ "NoSuchAPI" \in Range(Get(line.dict, "involved_classes", <<>>))
    /\ response["error"] = <<"KeyError", "NoSuchAPI">>

\* the bindings that are cached instances
Instances(g) == {k \in DOMAIN g : k \notin DOMAIN ModuleBindings}

\* a reset request that does not name a session: a field absent or empty
IsNoSessionReset(ln) == IsAction(ln, "reset") /\ ~IsSessionReset(ln)

\* C11: a reset request in which model_name or test_entry_id is absent or
\* empty deletes nothing, and is answered {id, reset: true}.
C11_ResetWithoutSessionIsNoOp ==
    [][(ReadStep /\ IsNoSessionReset(line') /\ status' = "running") =>
          /\ globals' = globals
          /\ response' = ("id" :> Get(line'.dict, "id", None))
                         @@ ("reset" :> TRUE)
      ]_vars

\* such a reset answered while instances are cached
C11_Witness ==
    /\ Answered
    /\ IsNoSessionReset(line)
    /\ "test_entry_id" \in DOMAIN line.dict
    /\ response["reset"] = TRUE
    /\ Instances(globals) # {}

\* C12: every reset request is answered {id, reset: true}, also when the
\* session has nothing cached, and a reset that repeats the request read just
\* before it leaves the namespace as the first one left it.
C12_ResetIdempotentTotal ==
    [][(ReadStep /\ IsAction(line', "reset") /\ status' = "running") =>
          /\ response' = ("id" :> Get(line'.dict, "id", None))
                         @@ ("reset" :> TRUE)
          /\ (line' = line => globals' = globals)
      ]_vars

\* a reset of a named session read as the first request, nothing being cached
C12_Witness ==
    /\ Answered
    /\ IsSessionReset(line)
    /\ nread = 1
    /\ Instances(globals) = {}
    /\ response["reset"] = TRUE

\* the namespace without any cached instance
WithoutInstances(g) == [k \in (DOMAIN g) \ Instances(g) |-> g[k]]

\* C13: a check request leaves the namespace as it was, whether the checker
\* returns or raises; its response does not depend on the cached instances;
\* and when the checker returns, the response is the id and, under
\* "result", what the checker returned.
C13_CheckIsStateless ==
    [][(ReadStep /\ IsAction(line', "check") /\ status' = "running") =>
          /\ globals' = globals
          /\ \E raises \in BOOLEAN :
                response' = main_body(WithoutInstances(globals), payload,
                                      line', raises).response
          /\ "result" \in DOMAIN response' =>
                response' =
                    ("id" :> Get(line'.dict, "id", None))
                    @@ ("result" :>
                          multi_turn_checker(
                              Get(line'.dict, "model_results", "[]"),
                              Get(line'.dict, "ground_truth", "[]"),
                              FALSE).verdict)
      ]_vars

\* a check answered with a passing verdict while instances are cached
C13_Witness ==
    /\ Answered
    /\ IsAction(line, "check")
    /\ "result" \in DOMAIN response
    /\ response["result"].valid
    /\ Instances(globals) # {}

C15_ResetKeepsModuleBindings ==
    \A k \in DOMAIN ModuleBindings :
        k \in DOMAIN globals /\ globals[k] = ModuleBindings[k]

\* C16: reading an empty or whitespace-only line writes no response, calls
\* no handler and changes nothing the next line's processing depends on
\* (the namespace and main's local payload), so the next line is processed
\* as it would have been without the blank line.
C16_BlankLineIsSkipped ==
    [][(ReadStep /\ line'.type = "blank") =>
          /\ UNCHANGED <<globals, payload, response, out, nread, status>>
          /\ \A ln \in ResetLines \cup CheckLines \cup MalformedLines :
                main_body(globals', payload', ln, FALSE)
                    = main_body(globals, payload, ln, FALSE)
      ]_vars

\* a whitespace-only line read after a request that left instances cached
C16_Witness ==
    /\ line.type = "blank"
    /\ line.text # ""
    /\ nread >= 1
    /\ Len(out) = nread
    /\ Instances(globals) # {}

WithDefaults(ln) ==
    [ln EXCEPT !.dict = ln.dict @@ ("model_name" :> <<"model">>)
                                @@ ("test_entry_id" :> <<>>)]

\* C18: an execute request that leaves out model_name, test_entry_id or
\* both is answered, and changes the namespace, exactly as the same request
\* with "model" and "" written out for the missing fields; so the requests
\* that leave out both all work on the instances of the one session
\* ("model", "").
C18_MissingSessionFieldsDefault ==
    [][(ReadStep /\ IsAction(line', "execute") /\ status' = "running") =>
          LET b == main_body(globals, payload, WithDefaults(line'), FALSE)
          IN  /\ response' = b.response
              /\ globals' = b.globals
              /\ "results" \in DOMAIN response' =>
                    \A c \in Stateful(Get(line'.dict, "involved_classes", <<>>)) :
                        LET K == ExecuteSession(WithDefaults(line').dict)
                        IN  InstanceKey(K[1], K[2], c) \in DOMAIN globals'
      ]_vars

\* a second execute without the two fields, without an initial
\* configuration, finds the instance the first one left: its one call is
\* answered as the instance's second
C18_Witness ==
    /\ Answered
    /\ IsAction(line, "execute")
    /\ DOMAIN line.dict \cap {"model_name", "test_entry_id", "initial_config"} = {}
    /\ "results" \in DOMAIN response
    /\ response["results"] = <<"2">>
    /\ InstanceKey(<<"model">>, <<>>, "GorillaFileSystem") \in DOMAIN globals

\* C19: in every state the registry is the one that was loaded, its two
\* mappings have the same API names, and every class listed as stateless or
\* as omitted from the state log is one of those names.
C19_RegistryWellFormedAndConstant ==
    /\ registry = LoadedRegistry
    /\ DOMAIN registry.docs = DOMAIN registry.paths
    /\ Range(registry.stateless) \subseteq DOMAIN registry.paths
    /\ Range(registry.omit) \subseteq DOMAIN registry.paths

\* an execute has left instances, a reset has deleted names and the last
\* request has been answered with an error
C19_Witness ==
    /\ Answered
    /\ nread >= 3
    /\ "error" \in DOMAIN response
    /\ Instances(globals) # {}
    /\ EngineName \notin DOMAIN globals

====
